---- MODULE Spec2Model ----
(***************************************************************************)
(* colortools/base.py: the Color value type, its multi-format constructor, *)
(* the named-color registry Color._CACHE, the lru_cache'd constructor      *)
(* color() and the colorproperty slot.                                     *)
(*                                                                         *)
(* Representation.  A Python str is the sequence of its characters, each a *)
(* one-character string.  A Python value is a record tagged by its type:   *)
(*   [t |-> "int", i |-> n]      [t |-> "float", h |-> h]  (h halves: h/2) *)
(*   [t |-> "str", s |-> chars]  [t |-> "tuple" or "list", e |-> values]   *)
(*   [t |-> "Color", c |-> obj]  [t |-> "None"]                            *)
(* A Color object obj is the tuple <<_red, _green, _blue, _alpha>> of its  *)
(* four slots, or <<>> when __init__ returned without assigning them (the  *)
(* four slots are only ever assigned together, by _fromrgba).              *)
(* The outcome of a call is Ok(value) or Raise(exception name).            *)
(***************************************************************************)
EXTENDS Integers, Sequences, FiniteSets, TLC

VARIABLES
    seeded,     \* how far the import of the module has filled Color._CACHE:
                \* [basic |-> update(...) done, names |-> COLOR_NAMES entries done]
    self,       \* the slots of the Color object a method is called on
    call,       \* the call being made: [op |-> ..., its arguments]
    ret,        \* its outcome, or Pending before it has run
    cached_hex,     \* the lru_cache of _cached_hex: <<key, result>>, least recent first
    cached_color,   \* the lru_cache of _cached_color, likewise
    watched,    \* history: one argument tuple and the first Color color() gave for it
    attr,       \* the instance attribute behind a colorproperty, per owner: <<>> or <<value>>
    default     \* the default the colorproperty was configured with

cacheVars == <<cached_hex, cached_color, watched>>
slotVars == <<attr, default>>
vars == <<seeded, self, call, ret, cached_hex, cached_color, watched, attr, default>>

Ok(v) == [kind |-> "ok", val |-> v]
Raise(e) == [kind |-> "raise", exc |-> e]
Pending == [kind |-> "pending"]

PyInt(n) == [t |-> "int", i |-> n]
PyFloat(h) == [t |-> "float", h |-> h]
PyStr(s) == [t |-> "str", s |-> s]
PyTuple(s) == [t |-> "tuple", e |-> s]
PyList(s) == [t |-> "list", e |-> s]
PyColor(obj) == [t |-> "Color", c |-> obj]
PyNone == [t |-> "None"]

(***************************************************************************)
(* Characters: str.lower, str.startswith, int(s, 16).                      *)
(***************************************************************************)
UpperChars == <<"A","B","C","D","E","F","G","H","I","J","K","L","M",
                "N","O","P","Q","R","S","T","U","V","W","X","Y","Z">>
LowerChars == <<"a","b","c","d","e","f","g","h","i","j","k","l","m",
                "n","o","p","q","r","s","t","u","v","w","x","y","z">>
HexChars == <<"0","1","2","3","4","5","6","7","8","9","a","b","c","d","e","f">>

IndexIn(c, table) == CHOOSE i \in 1..Len(table) : table[i] = c
IsIn(c, table) == \E i \in 1..Len(table) : table[i] = c

LowerChar(c) == IF IsIn(c, UpperChars) THEN LowerChars[IndexIn(c, UpperChars)] ELSE c
UpperChar(c) == IF IsIn(c, LowerChars) THEN UpperChars[IndexIn(c, LowerChars)] ELSE c

\* a lower() that leaves the string as it is
lower_unchanged(s) == s

\* str.lower()
lower(s) == [i \in 1..Len(s) |-> LowerChar(s[i])]
\* str.upper()
upper(s) == [i \in 1..Len(s) |-> UpperChar(s[i])]

\* value.startswith('#')
startswithHash(s) == Len(s) >= 1 /\ s[1] = "#"

IsHexChar(c) == IsIn(LowerChar(c), HexChars)
HexVal(c) == IndexIn(LowerChar(c), HexChars) - 1

\* int(value[2*i : 2*i+2], 16) for a two-character slice of hex digits
\* (characters int() would also accept, a sign or blanks, are not modelled)
int16(s) == IF \A i \in 1..Len(s) : IsHexChar(s[i])
            THEN Ok(16 * HexVal(s[1]) + HexVal(s[2]))
            ELSE Raise("ValueError")

\* Color._CACHE.update(...): the HTML 4.01 names, as keyword arguments
BASIC_COLORS == <<
    <<<<"w","h","i","t","e">>, <<"#","f","f","f","f","f","f">>>>,
    <<<<"s","i","l","v","e","r">>, <<"#","c","0","c","0","c","0">>>>,
    <<<<"g","r","a","y">>, <<"#","8","0","8","0","8","0">>>>,
    <<<<"b","l","a","c","k">>, <<"#","0","0","0","0","0","0">>>>,
    <<<<"r","e","d">>, <<"#","f","f","0","0","0","0">>>>,
    <<<<"m","a","r","o","o","n">>, <<"#","8","0","0","0","0","0">>>>,
    <<<<"y","e","l","l","o","w">>, <<"#","f","f","f","f","0","0">>>>,
    <<<<"o","l","i","v","e">>, <<"#","8","0","8","0","0","0">>>>,
    <<<<"l","i","m","e">>, <<"#","0","0","f","f","0","0">>>>,
    <<<<"g","r","e","e","n">>, <<"#","0","0","8","0","0","0">>>>,
    <<<<"a","q","u","a">>, <<"#","0","0","f","f","f","f">>>>,
    <<<<"t","e","a","l">>, <<"#","0","0","8","0","8","0">>>>,
    <<<<"b","l","u","e">>, <<"#","0","0","0","0","f","f">>>>,
    <<<<"n","a","v","y">>, <<"#","0","0","0","0","8","0">>>>,
    <<<<"f","u","s","c","h","i","a">>, <<"#","f","f","0","0","f","f">>>>,
    <<<<"p","u","r","p","l","e">>, <<"#","8","0","0","0","8","0">>>>,
    <<<<"t","r","a","n","s","p","a","r","e","n","t">>, <<"#","f","f","f","f","f","f","0","0">>>>,
    <<<<"n","u","l","l">>, <<"#","0","0","0","0","0","0","0","0">>>>
>>

\* SVG extended colors
COLOR_NAMES == <<
    <<<<"a","l","i","c","e","b","l","u","e">>, <<"#","F","0","F","8","F","F">>>>,
    <<<<"a","n","t","i","q","u","e","w","h","i","t","e">>, <<"#","F","A","E","B","D","7">>>>,
    <<<<"a","q","u","a">>, <<"#","0","0","F","F","F","F">>>>,
    <<<<"a","q","u","a","m","a","r","i","n","e">>, <<"#","7","F","F","F","D","4">>>>,
    <<<<"a","z","u","r","e">>, <<"#","F","0","F","F","F","F">>>>,
    <<<<"b","e","i","g","e">>, <<"#","F","5","F","5","D","C">>>>,
    <<<<"b","i","s","q","u","e">>, <<"#","F","F","E","4","C","4">>>>,
    <<<<"b","l","a","c","k">>, <<"#","0","0","0","0","0","0">>>>,
    <<<<"b","l","a","n","c","h","e","d","a","l","m","o","n","d">>, <<"#","F","F","E","B","C","D">>>>,
    <<<<"b","l","u","e">>, <<"#","0","0","0","0","F","F">>>>,
    <<<<"b","l","u","e","v","i","o","l","e","t">>, <<"#","8","A","2","B","E","2">>>>,
    <<<<"b","r","o","w","n">>, <<"#","A","5","2","A","2","A">>>>,
    <<<<"b","u","r","l","y","w","o","o","d">>, <<"#","D","E","B","8","8","7">>>>,
    <<<<"c","a","d","e","t","b","l","u","e">>, <<"#","5","F","9","E","A","0">>>>,
    <<<<"c","h","a","r","t","r","e","u","s","e">>, <<"#","7","F","F","F","0","0">>>>,
    <<<<"c","h","o","c","o","l","a","t","e">>, <<"#","D","2","6","9","1","E">>>>,
    <<<<"c","o","r","a","l">>, <<"#","F","F","7","F","5","0">>>>,
    <<<<"c","o","r","n","f","l","o","w","e","r","b","l","u","e">>, <<"#","6","4","9","5","E","D">>>>,
    <<<<"c","o","r","n","s","i","l","k">>, <<"#","F","F","F","8","D","C">>>>,
    <<<<"c","r","i","m","s","o","n">>, <<"#","D","C","1","4","3","C">>>>,
    <<<<"c","y","a","n">>, <<"#","0","0","F","F","F","F">>>>,
    <<<<"d","a","r","k","b","l","u","e">>, <<"#","0","0","0","0","8","B">>>>,
    <<<<"d","a","r","k","c","y","a","n">>, <<"#","0","0","8","B","8","B">>>>,
    <<<<"d","a","r","k","g","o","l","d","e","n","r","o","d">>, <<"#","B","8","8","6","0","B">>>>,
    <<<<"d","a","r","k","g","r","a","y">>, <<"#","A","9","A","9","A","9">>>>,
    <<<<"d","a","r","k","g","r","e","e","n">>, <<"#","0","0","6","4","0","0">>>>,
    <<<<"d","a","r","k","g","r","e","y">>, <<"#","A","9","A","9","A","9">>>>,
    <<<<"d","a","r","k","k","h","a","k","i">>, <<"#","B","D","B","7","6","B">>>>,
    <<<<"d","a","r","k","m","a","g","e","n","t","a">>, <<"#","8","B","0","0","8","B">>>>,
    <<<<"d","a","r","k","o","l","i","v","e","g","r","e","e","n">>, <<"#","5","5","6","B","2","F">>>>,
    <<<<"d","a","r","k","o","r","a","n","g","e">>, <<"#","F","F","8","C","0","0">>>>,
    <<<<"d","a","r","k","o","r","c","h","i","d">>, <<"#","9","9","3","2","C","C">>>>,
    <<<<"d","a","r","k","r","e","d">>, <<"#","8","B","0","0","0","0">>>>,
    <<<<"d","a","r","k","s","a","l","m","o","n">>, <<"#","E","9","9","6","7","A">>>>,
    <<<<"d","a","r","k","s","e","a","g","r","e","e","n">>, <<"#","8","F","B","C","8","F">>>>,
    <<<<"d","a","r","k","s","l","a","t","e","b","l","u","e">>, <<"#","4","8","3","D","8","B">>>>,
    <<<<"d","a","r","k","s","l","a","t","e","g","r","a","y">>, <<"#","2","F","4","F","4","F">>>>,
    <<<<"d","a","r","k","s","l","a","t","e","g","r","e","y">>, <<"#","2","F","4","F","4","F">>>>,
    <<<<"d","a","r","k","t","u","r","q","u","o","i","s","e">>, <<"#","0","0","C","E","D","1">>>>,
    <<<<"d","a","r","k","v","i","o","l","e","t">>, <<"#","9","4","0","0","D","3">>>>,
    <<<<"d","e","e","p","p","i","n","k">>, <<"#","F","F","1","4","9","3">>>>,
    <<<<"d","e","e","p","s","k","y","b","l","u","e">>, <<"#","0","0","B","F","F","F">>>>,
    <<<<"d","i","m","g","r","a","y">>, <<"#","6","9","6","9","6","9">>>>,
    <<<<"d","i","m","g","r","e","y">>, <<"#","6","9","6","9","6","9">>>>,
    <<<<"d","o","d","g","e","r","b","l","u","e">>, <<"#","1","E","9","0","F","F">>>>,
    <<<<"f","i","r","e","b","r","i","c","k">>, <<"#","B","2","2","2","2","2">>>>,
    <<<<"f","l","o","r","a","l","w","h","i","t","e">>, <<"#","F","F","F","A","F","0">>>>,
    <<<<"f","o","r","e","s","t","g","r","e","e","n">>, <<"#","2","2","8","B","2","2">>>>,
    <<<<"f","u","c","h","s","i","a">>, <<"#","F","F","0","0","F","F">>>>,
    <<<<"g","a","i","n","s","b","o","r","o">>, <<"#","D","C","D","C","D","C">>>>,
    <<<<"g","h","o","s","t","w","h","i","t","e">>, <<"#","F","8","F","8","F","F">>>>,
    <<<<"g","o","l","d">>, <<"#","F","F","D","7","0","0">>>>,
    <<<<"g","o","l","d","e","n","r","o","d">>, <<"#","D","A","A","5","2","0">>>>,
    <<<<"g","r","a","y">>, <<"#","8","0","8","0","8","0">>>>,
    <<<<"g","r","e","e","n">>, <<"#","0","0","8","0","0","0">>>>,
    <<<<"g","r","e","e","n","y","e","l","l","o","w">>, <<"#","A","D","F","F","2","F">>>>,
    <<<<"g","r","e","y">>, <<"#","8","0","8","0","8","0">>>>,
    <<<<"h","o","n","e","y","d","e","w">>, <<"#","F","0","F","F","F","0">>>>,
    <<<<"h","o","t","p","i","n","k">>, <<"#","F","F","6","9","B","4">>>>,
    <<<<"i","n","d","i","a","n","r","e","d">>, <<"#","C","D","5","C","5","C">>>>,
    <<<<"i","n","d","i","g","o">>, <<"#","4","B","0","0","8","2">>>>,
    <<<<"i","v","o","r","y">>, <<"#","F","F","F","F","F","0">>>>,
    <<<<"k","h","a","k","i">>, <<"#","F","0","E","6","8","C">>>>,
    <<<<"l","a","v","e","n","d","e","r">>, <<"#","E","6","E","6","F","A">>>>,
    <<<<"l","a","v","e","n","d","e","r","b","l","u","s","h">>, <<"#","F","F","F","0","F","5">>>>,
    <<<<"l","a","w","n","g","r","e","e","n">>, <<"#","7","C","F","C","0","0">>>>,
    <<<<"l","e","m","o","n","c","h","i","f","f","o","n">>, <<"#","F","F","F","A","C","D">>>>,
    <<<<"l","i","g","h","t","b","l","u","e">>, <<"#","A","D","D","8","E","6">>>>,
    <<<<"l","i","g","h","t","c","o","r","a","l">>, <<"#","F","0","8","0","8","0">>>>,
    <<<<"l","i","g","h","t","c","y","a","n">>, <<"#","E","0","F","F","F","F">>>>,
    <<<<"l","i","g","h","t","g","o","l","d","e","n","r","o","d","y","e","l","l","o","w">>, <<"#","F","A","F","A","D","2">>>>,
    <<<<"l","i","g","h","t","g","r","a","y">>, <<"#","D","3","D","3","D","3">>>>,
    <<<<"l","i","g","h","t","g","r","e","e","n">>, <<"#","9","0","E","E","9","0">>>>,
    <<<<"l","i","g","h","t","g","r","e","y">>, <<"#","D","3","D","3","D","3">>>>,
    <<<<"l","i","g","h","t","p","i","n","k">>, <<"#","F","F","B","6","C","1">>>>,
    <<<<"l","i","g","h","t","s","a","l","m","o","n">>, <<"#","F","F","A","0","7","A">>>>,
    <<<<"l","i","g","h","t","s","e","a","g","r","e","e","n">>, <<"#","2","0","B","2","A","A">>>>,
    <<<<"l","i","g","h","t","s","k","y","b","l","u","e">>, <<"#","8","7","C","E","F","A">>>>,
    <<<<"l","i","g","h","t","s","l","a","t","e","g","r","a","y">>, <<"#","7","7","8","8","9","9">>>>,
    <<<<"l","i","g","h","t","s","l","a","t","e","g","r","e","y">>, <<"#","7","7","8","8","9","9">>>>,
    <<<<"l","i","g","h","t","s","t","e","e","l","b","l","u","e">>, <<"#","B","0","C","4","D","E">>>>,
    <<<<"l","i","g","h","t","y","e","l","l","o","w">>, <<"#","F","F","F","F","E","0">>>>,
    <<<<"l","i","m","e">>, <<"#","0","0","F","F","0","0">>>>,
    <<<<"l","i","m","e","g","r","e","e","n">>, <<"#","3","2","C","D","3","2">>>>,
    <<<<"l","i","n","e","n">>, <<"#","F","A","F","0","E","6">>>>,
    <<<<"m","a","g","e","n","t","a">>, <<"#","F","F","0","0","F","F">>>>,
    <<<<"m","a","r","o","o","n">>, <<"#","8","0","0","0","0","0">>>>,
    <<<<"m","e","d","i","u","m","a","q","u","a","m","a","r","i","n","e">>, <<"#","6","6","C","D","A","A">>>>,
    <<<<"m","e","d","i","u","m","b","l","u","e">>, <<"#","0","0","0","0","C","D">>>>,
    <<<<"m","e","d","i","u","m","o","r","c","h","i","d">>, <<"#","B","A","5","5","D","3">>>>,
    <<<<"m","e","d","i","u","m","p","u","r","p","l","e">>, <<"#","9","3","7","0","D","B">>>>,
    <<<<"m","e","d","i","u","m","s","e","a","g","r","e","e","n">>, <<"#","3","C","B","3","7","1">>>>,
    <<<<"m","e","d","i","u","m","s","l","a","t","e","b","l","u","e">>, <<"#","7","B","6","8","E","E">>>>,
    <<<<"m","e","d","i","u","m","s","p","r","i","n","g","g","r","e","e","n">>, <<"#","0","0","F","A","9","A">>>>,
    <<<<"m","e","d","i","u","m","t","u","r","q","u","o","i","s","e">>, <<"#","4","8","D","1","C","C">>>>,
    <<<<"m","e","d","i","u","m","v","i","o","l","e","t","r","e","d">>, <<"#","C","7","1","5","8","5">>>>,
    <<<<"m","i","d","n","i","g","h","t","b","l","u","e">>, <<"#","1","9","1","9","7","0">>>>,
    <<<<"m","i","n","t","c","r","e","a","m">>, <<"#","F","5","F","F","F","A">>>>,
    <<<<"m","i","s","t","y","r","o","s","e">>, <<"#","F","F","E","4","E","1">>>>,
    <<<<"m","o","c","c","a","s","i","n">>, <<"#","F","F","E","4","B","5">>>>,
    <<<<"n","a","v","a","j","o","w","h","i","t","e">>, <<"#","F","F","D","E","A","D">>>>,
    <<<<"n","a","v","y">>, <<"#","0","0","0","0","8","0">>>>,
    <<<<"o","l","d","l","a","c","e">>, <<"#","F","D","F","5","E","6">>>>,
    <<<<"o","l","i","v","e">>, <<"#","8","0","8","0","0","0">>>>,
    <<<<"o","l","i","v","e","d","r","a","b">>, <<"#","6","B","8","E","2","3">>>>,
    <<<<"o","r","a","n","g","e">>, <<"#","F","F","A","5","0","0">>>>,
    <<<<"o","r","a","n","g","e","r","e","d">>, <<"#","F","F","4","5","0","0">>>>,
    <<<<"o","r","c","h","i","d">>, <<"#","D","A","7","0","D","6">>>>,
    <<<<"p","a","l","e","g","o","l","d","e","n","r","o","d">>, <<"#","E","E","E","8","A","A">>>>,
    <<<<"p","a","l","e","g","r","e","e","n">>, <<"#","9","8","F","B","9","8">>>>,
    <<<<"p","a","l","e","t","u","r","q","u","o","i","s","e">>, <<"#","A","F","E","E","E","E">>>>,
    <<<<"p","a","l","e","v","i","o","l","e","t","r","e","d">>, <<"#","D","B","7","0","9","3">>>>,
    <<<<"p","a","p","a","y","a","w","h","i","p">>, <<"#","F","F","E","F","D","5">>>>,
    <<<<"p","e","a","c","h","p","u","f","f">>, <<"#","F","F","D","A","B","9">>>>,
    <<<<"p","e","r","u">>, <<"#","C","D","8","5","3","F">>>>,
    <<<<"p","i","n","k">>, <<"#","F","F","C","0","C","B">>>>,
    <<<<"p","l","u","m">>, <<"#","D","D","A","0","D","D">>>>,
    <<<<"p","o","w","d","e","r","b","l","u","e">>, <<"#","B","0","E","0","E","6">>>>,
    <<<<"p","u","r","p","l","e">>, <<"#","8","0","0","0","8","0">>>>,
    <<<<"r","e","d">>, <<"#","F","F","0","0","0","0">>>>,
    <<<<"r","o","s","y","b","r","o","w","n">>, <<"#","B","C","8","F","8","F">>>>,
    <<<<"r","o","y","a","l","b","l","u","e">>, <<"#","4","1","6","9","E","1">>>>,
    <<<<"s","a","d","d","l","e","b","r","o","w","n">>, <<"#","8","B","4","5","1","3">>>>,
    <<<<"s","a","l","m","o","n">>, <<"#","F","A","8","0","7","2">>>>,
    <<<<"s","a","n","d","y","b","r","o","w","n">>, <<"#","F","4","A","4","6","0">>>>,
    <<<<"s","e","a","g","r","e","e","n">>, <<"#","2","E","8","B","5","7">>>>,
    <<<<"s","e","a","s","h","e","l","l">>, <<"#","F","F","F","5","E","E">>>>,
    <<<<"s","i","e","n","n","a">>, <<"#","A","0","5","2","2","D">>>>,
    <<<<"s","i","l","v","e","r">>, <<"#","C","0","C","0","C","0">>>>,
    <<<<"s","k","y","b","l","u","e">>, <<"#","8","7","C","E","E","B">>>>,
    <<<<"s","l","a","t","e","b","l","u","e">>, <<"#","6","A","5","A","C","D">>>>,
    <<<<"s","l","a","t","e","g","r","a","y">>, <<"#","7","0","8","0","9","0">>>>,
    <<<<"s","l","a","t","e","g","r","e","y">>, <<"#","7","0","8","0","9","0">>>>,
    <<<<"s","n","o","w">>, <<"#","F","F","F","A","F","A">>>>,
    <<<<"s","p","r","i","n","g","g","r","e","e","n">>, <<"#","0","0","F","F","7","F">>>>,
    <<<<"s","t","e","e","l","b","l","u","e">>, <<"#","4","6","8","2","B","4">>>>,
    <<<<"t","a","n">>, <<"#","D","2","B","4","8","C">>>>,
    <<<<"t","e","a","l">>, <<"#","0","0","8","0","8","0">>>>,
    <<<<"t","h","i","s","t","l","e">>, <<"#","D","8","B","F","D","8">>>>,
    <<<<"t","o","m","a","t","o">>, <<"#","F","F","6","3","4","7">>>>,
    <<<<"t","u","r","q","u","o","i","s","e">>, <<"#","4","0","E","0","D","0">>>>,
    <<<<"v","i","o","l","e","t">>, <<"#","E","E","8","2","E","E">>>>,
    <<<<"w","h","e","a","t">>, <<"#","F","5","D","E","B","3">>>>,
    <<<<"w","h","i","t","e">>, <<"#","F","F","F","F","F","F">>>>,
    <<<<"w","h","i","t","e","s","m","o","k","e">>, <<"#","F","5","F","5","F","5">>>>,
    <<<<"y","e","l","l","o","w">>, <<"#","F","F","F","F","0","0">>>>,
    <<<<"y","e","l","l","o","w","g","r","e","e","n">>, <<"#","9","A","C","D","3","2">>>>
>>

(***************************************************************************)
(* Color.__init__ and the parsers it dispatches to.                        *)
(***************************************************************************)
\* int(x) as _fromrgba applies it to one component
IntOf(x) ==
    CASE x.t = "int" -> Ok(x.i)
      [] x.t = "float" -> Ok(IF x.h >= 0 THEN x.h \div 2 ELSE -((-x.h) \div 2))
      [] x.t = "str" -> Raise("ValueError")   \* no str of digits is tried as a component
      [] OTHER -> Raise("TypeError")

ParamNames == <<"r", "g", "b", "a">>
ParamDefaults == <<PyInt(0), PyInt(0), PyInt(0), PyInt(255)>>

\* Python's binding of a call _fromrgba(*pos, **kw) to (r=0, g=0, b=0, a=255);
\* kw is a sequence of <<keyword, value>> pairs
BindRgba(pos, kw) ==
    IF Len(pos) > 4 THEN Raise("TypeError")
    ELSE IF \E k \in 1..Len(kw) : ~IsIn(kw[k][1], ParamNames) THEN Raise("TypeError")
    ELSE IF \E k \in 1..Len(kw) : IndexIn(kw[k][1], ParamNames) <= Len(pos)
         THEN Raise("TypeError")
    ELSE Ok([j \in 1..4 |->
            IF j <= Len(pos) THEN pos[j]
            ELSE IF \E k \in 1..Len(kw) : kw[k][1] = ParamNames[j]
                 THEN kw[CHOOSE k \in 1..Len(kw) : kw[k][1] = ParamNames[j]][2]
                 ELSE ParamDefaults[j]])

\* the first component whose int() raises, if any
FirstBad(vals) == CHOOSE j \in 1..4 :
    IntOf(vals[j]).kind = "raise" /\ \A i \in 1..(j - 1) : IntOf(vals[i]).kind = "ok"

\* _fromrgba(self, r=0, g=0, b=0, a=255): the four slots of self, or the error
_fromrgba(pos, kw) ==
    LET bound == BindRgba(pos, kw) IN
    IF bound.kind = "raise" THEN bound
    ELSE IF \E j \in 1..4 : IntOf(bound.val[j]).kind = "raise"
         THEN IntOf(bound.val[FirstBad(bound.val)])
    ELSE Ok([j \in 1..4 |-> IntOf(bound.val[j]).val])

\* the string repeated instead of each digit doubled
DoubleChars_repeated(s) == s \o s

\* ''.join(c + c for c in value)
DoubleChars(s) == [i \in 1..(2 * Len(s)) |-> s[(i + 1) \div 2]]

\* value[2*i : 2*i+2], i counted from 0
Pair(s, i) == <<s[2 * i + 1], s[2 * i + 2]>>

\* _fromhex(self, value, alpha=255)
_fromhex(value, kw) ==
    IF \E k \in 1..Len(kw) : kw[k][1] # "alpha" THEN Raise("TypeError")
    ELSE
    LET alpha == IF Len(kw) = 0 THEN PyInt(255) ELSE kw[1][2]
        v1 == Tail(value)
        v2 == IF Len(v1) \in {3, 4} THEN DoubleChars(v1) ELSE v1
        n == IF Len(v2) = 6 THEN 3 ELSE 4
        bad == {i \in 0..(n - 1) : int16(Pair(v2, i)).kind = "raise"}
    IN  IF Len(v2) \notin {6, 8} THEN Raise("ValueError")
        ELSE IF bad # {} THEN Raise("ValueError")
        ELSE IF Len(v2) = 6
             THEN _fromrgba(<<PyInt(int16(Pair(v2, 0)).val), PyInt(int16(Pair(v2, 1)).val),
                              PyInt(int16(Pair(v2, 2)).val), alpha>>, <<>>)
             ELSE _fromrgba(<<PyInt(int16(Pair(v2, 0)).val), PyInt(int16(Pair(v2, 1)).val),
                              PyInt(int16(Pair(v2, 2)).val), PyInt(int16(Pair(v2, 3)).val)>>, <<>>)

\* tuple(self) / iter(self): reading the four slots of a Color object
IterColor(obj) == IF obj = <<>> THEN Raise("AttributeError")
                  ELSE Ok([j \in 1..4 |-> PyInt(obj[j])])

\* _fromname(self, value), reading the registry cache
_fromname(cache, value, kw) ==
    IF Len(kw) > 0 THEN Raise("TypeError")
    ELSE LET name == lower(value) IN
         IF name \notin DOMAIN cache THEN Raise("KeyError")
         ELSE LET rgba == IterColor(cache[name]) IN
              IF rgba.kind = "raise" THEN rgba ELSE _fromrgba(rgba.val, <<>>)

RandomStr == <<"r","a","n","d","o","m">>

\* the elements *value unpacks, for a list, a tuple or a Color
Unpack(value) == IF value.t = "Color" THEN IterColor(value.c) ELSE Ok(value.e)

\* Color.__init__(self, *args, **kwargs).  cache is Color._CACHE; rnd is the
\* triple random.randint(0, 255) draws.  Ok(obj) is the object constructed,
\* with its slots, possibly still unassigned (obj = <<>>).
ColorInit(cache, args, kw, rnd) ==
    IF Len(args) \in {3, 4} THEN _fromrgba(args, kw)
    ELSE IF Len(args) = 1 THEN
        LET value == args[1] IN
        IF value.t \in {"list", "tuple", "Color"} THEN
            LET elems == Unpack(value) IN
            IF elems.kind = "raise" THEN elems ELSE _fromrgba(elems.val, <<>>)
        ELSE IF value.t = "str" THEN
            IF startswithHash(value.s) THEN _fromhex(value.s, kw)
            ELSE IF value.s = RandomStr
                 THEN _fromrgba(<<PyInt(rnd[1]), PyInt(rnd[2]), PyInt(rnd[3])>>, <<>>)
            ELSE _fromname(cache, value.s, kw)
        ELSE IF value.t = "int" THEN
            _fromrgba(<<PyInt((value.i % 16777216) \div 65536),
                        PyInt((value.i % 65536) \div 256),
                        PyInt(value.i % 256)>>, kw)
        ELSE Ok(<<>>)
    ELSE IF Len(args) = 0 THEN Raise("TypeError")
    ELSE Ok(<<>>)

\* a seed Color that drops the alpha digits of its literal
SeedColor_opaque(code) ==
    LET c == ColorInit(<<>>, <<PyStr(code)>>, <<>>, <<0, 0, 0>>).val
    IN  <<c[1], c[2], c[3], 255>>

\* Color(code) for a literal of the seed tables
SeedColor(code) == ColorInit(<<>>, <<PyStr(code)>>, <<>>, <<0, 0, 0>>).val

\* dict.update(**kw): every entry set, the last one given for a key standing
DictUpdate(d, entries) ==
    LET given == {entries[i][1] : i \in 1..Len(entries)}
        last(k) == CHOOSE i \in 1..Len(entries) :
                      entries[i][1] = k /\ \A j \in (i + 1)..Len(entries) : entries[j][1] # k
    IN  [k \in DOMAIN d \cup given |->
            IF k \in given THEN SeedColor(entries[last(k)][2]) ELSE d[k]]

\* for _name, _code in COLOR_NAMES: Color._CACHE.setdefault(_name, Color(_code)):
\* a key already present keeps its value, a new key takes its first entry
SetDefaults(d, entries) ==
    LET given == {entries[i][1] : i \in 1..Len(entries)}
        first(k) == CHOOSE i \in 1..Len(entries) :
                       entries[i][1] = k /\ \A j \in 1..(i - 1) : entries[j][1] # k
    IN  [k \in DOMAIN d \cup given |->
            IF k \in DOMAIN d THEN d[k] ELSE SeedColor(entries[first(k)][2])]

\* Color._CACHE once the module is imported
SeededCache == SetDefaults(DictUpdate(<<>>, BASIC_COLORS), COLOR_NAMES)

\* the import has run to its end
Imported == [basic |-> TRUE, names |-> Len(COLOR_NAMES)]

\* the dict the seeding has made when the import stands at position pos
CacheAt(pos) ==
    IF pos = Imported THEN SeededCache
    ELSE SetDefaults(IF pos.basic THEN DictUpdate(<<>>, BASIC_COLORS) ELSE <<>>,
                     SubSeq(COLOR_NAMES, 1, pos.names))

\* Color._CACHE, the named-color registry (name -> Color object): nothing but
\* the import writes it, so it is the dict the seeding done so far has made
_CACHE == CacheAt(seeded)

(***************************************************************************)
(* The packed views.                                                       *)
(***************************************************************************)
\* rgbu with red shifted by 8 bits instead of 16
rgbu_shift8(obj) == IF obj = <<>> THEN Raise("AttributeError")
                    ELSE Ok(obj[1] * 256 + obj[2] * 256 + obj[3])

\* Color.rgbu: (c[0] << 16) + (c[1] << 8) + c[2]
rgbu(obj) == IF obj = <<>> THEN Raise("AttributeError")
             ELSE Ok(obj[1] * 65536 + obj[2] * 256 + obj[3])

\* Color.rgbau: (c[0] << 24) + (c[1] << 16) + (c[2] << 8) + c[3]
rgbau(obj) == IF obj = <<>> THEN Raise("AttributeError")
              ELSE Ok(obj[1] * 16777216 + obj[2] * 65536 + obj[3] * 256 + obj[4])

\* x == y between a component (an int) and an element of the other value
ElemEq(x, y) ==
    CASE y.t = "int" -> x = y.i
      [] y.t = "float" -> y.h % 2 = 0 /\ x = y.h \div 2
      [] OTHER -> FALSE

\* __eq__ comparing a 3-element value without looking at alpha
eq_ignoring_alpha(obj, other) ==
    IF other.t = "Color" /\ obj # <<>> /\ other.c # <<>> THEN Ok(obj = other.c)
    ELSE IF other.t \notin {"Color", "tuple", "list", "str"} THEN Raise("TypeError")
    ELSE LET n == CASE other.t = "Color" -> 4
                    [] other.t = "str" -> Len(other.s)
                    [] OTHER -> Len(other.e)
         IN
         IF n \notin {3, 4} THEN Ok(FALSE)
         ELSE IF obj = <<>> THEN Raise("AttributeError")
         ELSE IF other.t = "Color" THEN Raise("AttributeError")
         ELSE IF other.t = "str" THEN Ok(FALSE)
         ELSE Ok(\A j \in 1..n : ElemEq(obj[j], other.e[j]))

\* Color.__eq__(self, other)
__eq__(obj, other) ==
    IF other.t = "Color" /\ obj # <<>> /\ other.c # <<>> THEN Ok(obj = other.c)
    ELSE \* AttributeError or TypeError caught: len(other)
    IF other.t \notin {"Color", "tuple", "list", "str"} THEN Raise("TypeError")
    ELSE LET n == CASE other.t = "Color" -> 4
                    [] other.t = "str" -> Len(other.s)
                    [] OTHER -> Len(other.e)
         IN
         IF n \notin {3, 4} THEN Ok(FALSE)
         ELSE IF n = 3 /\ obj # <<>> /\ obj[4] # 255 THEN Ok(FALSE)
         ELSE IF obj = <<>> THEN Raise("AttributeError")
         ELSE IF other.t = "Color" THEN Raise("AttributeError")
         ELSE IF other.t = "str" THEN Ok(FALSE)
         ELSE Ok(\A j \in 1..n : ElemEq(obj[j], other.e[j]))

(***************************************************************************)
(* Attribute lookup, hashing, copy and the hue/saturation/intensity view.  *)
(***************************************************************************)
\* getattr(self, name) for the slots and the properties modelled here; a name
\* the class does not define raises AttributeError
GetAttr(obj, name) ==
    CASE name \in {"_red", "red"} -> IF obj = <<>> THEN Raise("AttributeError") ELSE Ok(obj[1])
      [] name \in {"_green", "green"} -> IF obj = <<>> THEN Raise("AttributeError") ELSE Ok(obj[2])
      [] name \in {"_blue", "blue"} -> IF obj = <<>> THEN Raise("AttributeError") ELSE Ok(obj[3])
      [] name \in {"_alpha", "alpha"} -> IF obj = <<>> THEN Raise("AttributeError") ELSE Ok(obj[4])
      [] name = "rgbau" -> rgbau(obj)
      [] name = "rgbu" -> rgbu(obj)
      [] OTHER -> Raise("AttributeError")

\* Color.__hash__: hash(self.u_rgba); the hash of a small int is the int
__hash__(obj) == GetAttr(obj, "u_rgba")

\* copy with "if red:" in place of "if red is not None:"
copy_truthy(cache, obj, red, green, blue, alpha, kwds) ==
    IF obj = <<>> THEN Raise("AttributeError")
    ELSE LET pick(given, old) == IF given.t = "None" \/ given = PyInt(0) THEN PyInt(old) ELSE given
         IN  IF Len(kwds) > 0 THEN Raise("NotImplementedError")
             ELSE ColorInit(cache, <<pick(red, obj[1]), pick(green, obj[2]),
                                     pick(blue, obj[3]), pick(alpha, obj[4])>>, <<>>, <<0, 0, 0>>)

\* Color.copy(self, red=None, green=None, blue=None, alpha=None, **kwds)
copy(cache, obj, red, green, blue, alpha, kwds) ==
    IF obj = <<>> THEN Raise("AttributeError")
    ELSE LET pick(given, old) == IF given.t = "None" THEN PyInt(old) ELSE given
         IN  IF Len(kwds) > 0 THEN Raise("NotImplementedError")
             ELSE ColorInit(cache, <<pick(red, obj[1]), pick(green, obj[2]),
                                     pick(blue, obj[3]), pick(alpha, obj[4])>>, <<>>, <<0, 0, 0>>)

\* Color.hsia.  The floats are not represented: the outcome is the error
\* raised, or Ok of the two exact parts of the tuple, 3*I and alpha.
\*   I = (R + G + B) / 3;  S = 1 - min(R, G, B) / I      ZeroDivisionError if I = 0
\*   acos(((r - g) + (r - b)) / 2)                        ValueError outside [-1, 1]
\*   sqrt((r - b) ** 2 + (r - b) * (g - b))               ValueError if negative
\*   h_numer / h_denom                                    ZeroDivisionError if 0
hsia(obj) ==
    IF obj = <<>> THEN Raise("AttributeError")
    ELSE LET R == obj[1]
             G == obj[2]
             B == obj[3]
             D == (R - B) * (R - B) + (R - B) * (G - B)
         IN  IF R + G + B = 0 THEN Raise("ZeroDivisionError")
             ELSE IF (R - G) + (R - B) > 510 \/ (R - G) + (R - B) < -510 THEN Raise("ValueError")
             ELSE IF D < 0 THEN Raise("ValueError")
             ELSE IF D = 0 THEN Raise("ZeroDivisionError")
             ELSE Ok(<<R + G + B, obj[4]>>)

\* Color.hsi: self.hsia[:-1]
hsi(obj) == LET r == hsia(obj) IN IF r.kind = "raise" THEN r ELSE Ok(<<r.val[1]>>)

(***************************************************************************)
(* Indexed reads: __getitem__, and the tuple it is to agree with.          *)
(***************************************************************************)
\* Color._RANGE
_RANGE == <<PyInt(0), PyInt(1), PyInt(2), PyInt(3)>>

\* Color.__len__
__len__ == 4

PySlice(a, b, c) == [t |-> "slice", start |-> a, stop |-> b, step |-> c]

\* slice.indices(n): the step, and the clamped start and stop
SliceStep(k) == IF k.step = PyNone THEN 1 ELSE k.step.i

SliceStart(k, n) ==
    LET step == SliceStep(k) IN
    IF k.start = PyNone THEN (IF step < 0 THEN n - 1 ELSE 0)
    ELSE LET i == IF k.start.i < 0 THEN k.start.i + n ELSE k.start.i IN
         IF i < 0 THEN (IF step < 0 THEN -1 ELSE 0)
         ELSE IF i >= n THEN (IF step < 0 THEN n - 1 ELSE n)
         ELSE i

SliceStop(k, n) ==
    LET step == SliceStep(k) IN
    IF k.stop = PyNone THEN (IF step < 0 THEN -1 ELSE n)
    ELSE LET i == IF k.stop.i < 0 THEN k.stop.i + n ELSE k.stop.i IN
         IF i < 0 THEN (IF step < 0 THEN -1 ELSE 0)
         ELSE IF i >= n THEN (IF step < 0 THEN n - 1 ELSE n)
         ELSE i

\* the positions from i on, by step, short of stop
RECURSIVE SliceRange(_, _, _)
SliceRange(i, stop, step) ==
    IF (step > 0 /\ i < stop) \/ (step < 0 /\ i > stop)
    THEN <<i>> \o SliceRange(i + step, stop, step)
    ELSE <<>>

\* tuple.__getitem__: elems[key] for the tuple of elems, positions from 0
TupleGetItem(elems, key) ==
    CASE key.t = "int" ->
            LET i == IF key.i < 0 THEN key.i + Len(elems) ELSE key.i IN
            IF i < 0 \/ i >= Len(elems) THEN Raise("IndexError") ELSE Ok(elems[i + 1])
      [] key.t = "slice" ->
            IF SliceStep(key) = 0 THEN Raise("ValueError")
            ELSE LET at == SliceRange(SliceStart(key, Len(elems)), SliceStop(key, Len(elems)),
                                      SliceStep(key))
                 IN  Ok(PyTuple([j \in 1..Len(at) |-> elems[at[j] + 1]]))
      [] OTHER -> Raise("TypeError")

\* tuple(self)
tuple(obj) == LET r == IterColor(obj) IN IF r.kind = "raise" THEN r ELSE Ok(PyTuple(r.val))

\* the isinstance(key, int) branch of Color.__getitem__
GetItemInt(obj, key) ==
    LET k == IF key < 0 THEN key + __len__ ELSE key
        slot == CASE k = 0 -> GetAttr(obj, "_red")
                  [] k = 1 -> GetAttr(obj, "_green")
                  [] k = 2 -> GetAttr(obj, "_blue")
                  [] k = 3 -> GetAttr(obj, "_alpha")
                  [] OTHER -> Raise("IndexError")
    IN  IF slot.kind = "raise" THEN slot ELSE Ok(PyInt(slot.val))

\* a __getitem__ that takes no negative index
getitem_no_negative(obj, key) ==
    IF key.t = "int"
    THEN IF key.i < 0 THEN Raise("IndexError") ELSE GetItemInt(obj, key.i)
    ELSE LET r == TupleGetItem(_RANGE, key) IN
         IF r.kind = "raise" THEN r
         ELSE LET got == [j \in 1..Len(r.val.e) |-> GetItemInt(obj, r.val.e[j].i)] IN
              IF \E j \in 1..Len(got) : got[j].kind = "raise"
              THEN got[CHOOSE j \in 1..Len(got) :
                          got[j].kind = "raise" /\ \A i \in 1..(j - 1) : got[i].kind = "ok"]
              ELSE Ok(PyTuple([j \in 1..Len(got) |-> got[j].val]))

\* Color.__getitem__(self, key): a component for an int, else
\* tuple(self[i] for i in self._RANGE[key])
__getitem__(obj, key) ==
    IF key.t = "int" THEN GetItemInt(obj, key.i)
    ELSE LET r == TupleGetItem(_RANGE, key) IN
         IF r.kind = "raise" THEN r
         ELSE LET got == [j \in 1..Len(r.val.e) |-> GetItemInt(obj, r.val.e[j].i)] IN
              IF \E j \in 1..Len(got) : got[j].kind = "raise"
              THEN got[CHOOSE j \in 1..Len(got) :
                          got[j].kind = "raise" /\ \A i \in 1..(j - 1) : got[i].kind = "ok"]
              ELSE Ok(PyTuple([j \in 1..Len(got) |-> got[j].val]))

\* Color.rgba: tuple(self)
rgba(obj) == tuple(obj)

\* Color.rgb: self[:3]
rgb(obj) == __getitem__(obj, PySlice(PyNone, PyInt(3), PyNone))

(***************************************************************************)
(* The cached constructor color() and its two lru_cache tables.            *)
(***************************************************************************)
maxsize == 2    \* entries an lru_cache keeps (512 in the source, scaled down)

\* hash(x) as lru_cache takes it of an argument: Ok, or the error raised
HashOf(x) ==
    CASE x.t = "list" -> Raise("TypeError")
      [] x.t = "Color" -> __hash__(x.c)
      [] x.t = "tuple" ->
            IF \E j \in 1..Len(x.e) : x.e[j].t = "list" THEN Raise("TypeError")
            ELSE IF \E j \in 1..Len(x.e) : x.e[j].t = "Color" THEN Raise("AttributeError")
            ELSE Ok(TRUE)
      [] OTHER -> Ok(TRUE)

\* hash(args) of the tuple of positional arguments
HashOfArgs(args) ==
    IF \A j \in 1..Len(args) : HashOf(args[j]).kind = "ok" THEN Ok(TRUE)
    ELSE HashOf(args[CHOOSE j \in 1..Len(args) :
                        HashOf(args[j]).kind = "raise"
                        /\ \A i \in 1..(j - 1) : HashOf(args[i]).kind = "ok"])

Without(seq, i) == SubSeq(seq, 1, i - 1) \o SubSeq(seq, i + 1, Len(seq))

\* an lru_cache that evicts the most recently used entry when full
lru_cache_evict_newest(table, key, hashed, computed) ==
    IF hashed.kind = "raise" THEN [table |-> table, ret |-> hashed]
    ELSE IF \E i \in 1..Len(table) : table[i][1] = key
    THEN LET i == CHOOSE i \in 1..Len(table) : table[i][1] = key
         IN  [table |-> Append(Without(table, i), table[i]), ret |-> Ok(table[i][2])]
    ELSE IF computed.kind = "raise" THEN [table |-> table, ret |-> computed]
    ELSE [table |-> Append(IF Len(table) >= maxsize THEN SubSeq(table, 1, Len(table) - 1) ELSE table,
                           <<key, computed.val>>),
          ret |-> computed]

\* @lru_cache(maxsize=512) around a function of one argument: a hit returns the
\* stored result and makes the entry the most recent; a miss calls the function,
\* stores the result unless it raised, and evicts the least recent entry when full
lru_cache(table, key, hashed, computed) ==
    IF hashed.kind = "raise" THEN [table |-> table, ret |-> hashed]
    ELSE IF \E i \in 1..Len(table) : table[i][1] = key
    THEN LET i == CHOOSE i \in 1..Len(table) : table[i][1] = key
         IN  [table |-> Append(Without(table, i), table[i]), ret |-> Ok(table[i][2])]
    ELSE IF computed.kind = "raise" THEN [table |-> table, ret |-> computed]
    ELSE [table |-> Append(IF Len(table) >= maxsize THEN Tail(table) ELSE table,
                           <<key, computed.val>>),
          ret |-> computed]

\* color(*args): the result and the two tables after the call
color(cache, hexTable, colorTable, args, rnd) ==
    IF Len(args) = 1 /\ args[1].t = "Color"
    THEN [hex |-> hexTable, color |-> colorTable, ret |-> Ok(args[1].c)]
    ELSE IF Len(args) = 1 /\ args[1].t = "str" /\ ~startswithHash(args[1].s)
    THEN \* _cached_hex(value): return Color(value)
         LET r == lru_cache(hexTable, args[1].s, Ok(TRUE), ColorInit(cache, args, <<>>, rnd))
         IN  [hex |-> r.table, color |-> colorTable, ret |-> r.ret]
    ELSE \* _cached_color(args): return Color(*args)
         LET r == lru_cache(colorTable, args, HashOfArgs(args), ColorInit(cache, args, <<>>, rnd))
         IN  [hex |-> hexTable, color |-> r.table, ret |-> r.ret]

(***************************************************************************)
(* colorproperty: the closures fget, fset, fdel over attr and default.     *)
(***************************************************************************)
\* colorproperty.__init__: default = (None if default is None else Color(default))
colorproperty(cache, given) ==
    IF given = PyNone THEN Ok(PyNone)
    ELSE LET c == ColorInit(cache, <<given>>, <<>>, <<0, 0, 0>>) IN
         IF c.kind = "raise" THEN c ELSE Ok(PyColor(c.val))

\* fget(self): getattr(self, attr, default)
fget(attrs, dflt, o) == IF attrs[o] = <<>> THEN dflt ELSE attrs[o][1]

\* an fset that stores None itself when None is assigned
fset_none_stored(cache, attrs, dflt, o, value, rnd) ==
    IF value.t \in {"None", "Color"} THEN [attr |-> [attrs EXCEPT ![o] = <<value>>], ret |-> Ok(PyNone)]
    ELSE LET c == ColorInit(cache, <<value>>, <<>>, rnd) IN
         IF c.kind = "raise" THEN [attr |-> attrs, ret |-> c]
         ELSE [attr |-> [attrs EXCEPT ![o] = <<PyColor(c.val)>>], ret |-> Ok(PyNone)]

\* fset(self, value): the attributes after the assignment, and its outcome
fset(cache, attrs, dflt, o, value, rnd) ==
    IF value.t = "None" THEN [attr |-> [attrs EXCEPT ![o] = <<dflt>>], ret |-> Ok(PyNone)]
    ELSE IF value.t = "Color" THEN [attr |-> [attrs EXCEPT ![o] = <<value>>], ret |-> Ok(PyNone)]
    ELSE LET c == ColorInit(cache, <<value>>, <<>>, rnd) IN
         IF c.kind = "raise" THEN [attr |-> attrs, ret |-> c]
         ELSE [attr |-> [attrs EXCEPT ![o] = <<PyColor(c.val)>>], ret |-> Ok(PyNone)]

\* an fdel that passes in silence over a slot holding nothing
fdel_silent(attrs, o) == [attr |-> [attrs EXCEPT ![o] = <<>>], ret |-> Ok(PyNone)]

\* fdel(self)
fdel(attrs, o) ==
    IF attrs[o] # <<>> THEN [attr |-> [attrs EXCEPT ![o] = <<>>], ret |-> Ok(PyNone)]
    ELSE [attr |-> attrs, ret |-> Raise("AttributeError")]

(***************************************************************************)
(* Calls of the constructor.                                               *)
(***************************************************************************)
MaxArity == 5       \* positional components tried: 0..MaxArity
MaxSeqLen == 5      \* elements of a tuple or list argument: 0..MaxSeqLen
MaxHexLen == 9      \* characters after '#': 0..MaxHexLen

SeqsUpTo(S, n) == UNION {[1..k -> S] : k \in 0..n}

CompVals == {PyInt(0), PyInt(128), PyInt(255)}
ElemVals == {PyInt(7), PyInt(255)}
ByteVals == {0, 1, 127, 128, 255}
RandVals == {0, 255}
HexAlphabet == {"1", "E"}

NoKw == <<>>
KwAlpha == << <<"alpha", PyInt(128)>> >>
KwA == << <<"a", PyInt(128)>> >>

HexStrings == {<<"#">> \o s : s \in SeqsUpTo(HexAlphabet, MaxHexLen)}
MoreHexStrings == {<<"#","0","c","9">>, <<"#","a","B","7","f">>,
                   <<"#","1","0","c","0","F","9">>, <<"#","8","0","f","F","0","0","7","e">>,
                   <<"#","d","2","6","9","1">>, <<"#","3","4","5","6","7","8","9">>}
NonHexStrings == {<<"#","g","g","g">>, <<"#","0","0","0","0","0","g">>,
                  <<"#","g","0","0","0","0","0","F","F">>, <<"#","g">>,
                  <<"#","0","0","g","0","0">>}

capitalize(s) == [i \in 1..Len(s) |-> IF i = 1 THEN UpperChar(s[i]) ELSE LowerChar(s[i])]
alternate(s) == [i \in 1..Len(s) |-> IF i % 2 = 0 THEN UpperChar(s[i]) ELSE LowerChar(s[i])]

SeedNames == {BASIC_COLORS[i][1] : i \in 1..Len(BASIC_COLORS)}
             \cup {COLOR_NAMES[i][1] : i \in 1..Len(COLOR_NAMES)}
NameStrings == UNION {{n, upper(n), capitalize(n), alternate(n)} : n \in SeedNames}
OtherStrings == {<<>>, <<"n","o","p","e">>, <<"R","A","N","D","O","M">>,
                 <<"r","e","d"," ">>, <<"f","u","c","h","s","i","a","s">>,
                 <<"G","R","E","Y","2">>}
                \cup {SubSeq(n, 1, Len(n) - 1) : n \in SeedNames}

ColorObjs == {<<>>, <<10, 20, 30, 255>>, <<10, 20, 30, 128>>, <<0, 0, 0, 0>>}

PackedInts == {rgbu(<<r, g, b, 255>>).val : r \in ByteVals, g \in ByteVals, b \in ByteVals}
              \cup {-1, 16777216 + 258}

SingleValues ==
    {PyStr(s) : s \in HexStrings \cup MoreHexStrings \cup NonHexStrings \cup NameStrings \cup OtherStrings
                      \cup {RandomStr}}
    \cup {PyInt(n) : n \in PackedInts}
    \cup {PyTuple(s) : s \in SeqsUpTo(ElemVals, MaxSeqLen)}
    \cup {PyList(s) : s \in SeqsUpTo(ElemVals, MaxSeqLen)}
    \cup {PyColor(c) : c \in ColorObjs}
    \cup {PyFloat(7), PyNone}

CtorCalls ==
    {[op |-> "Color", args |-> a, kw |-> NoKw] : a \in SeqsUpTo(CompVals, MaxArity)}
    \cup {[op |-> "Color", args |-> <<v>>, kw |-> NoKw] : v \in SingleValues}
    \cup {[op |-> "Color", args |-> <<PyStr(s)>>, kw |-> KwAlpha] :
                s \in HexStrings \cup MoreHexStrings \cup NonHexStrings}
    \cup {[op |-> "Color", args |-> <<PyStr(s)>>, kw |-> KwA] : s \in MoreHexStrings}
    \cup {[op |-> "Color", args |-> <<PyStr(s)>>, kw |-> KwAlpha] :
                s \in {RandomStr, <<"r","e","d">>}}
    \cup {[op |-> "Color", args |-> <<PyInt(n)>>, kw |-> k] : n \in {255, 65280}, k \in {KwAlpha, KwA}}
    \cup {[op |-> "Color", args |-> <<PyInt(1), PyInt(2), PyInt(3)>>, kw |-> k] : k \in {KwAlpha, KwA}}
    \cup {[op |-> "Color", args |-> <<PyInt(1), PyFloat(5), PyInt(3), PyInt(4)>>, kw |-> NoKw],
          [op |-> "Color", args |-> <<PyInt(1), PyNone, PyInt(3)>>, kw |-> NoKw]}

Owners == {1, 2}

\* no color() call made yet, no colorproperty assigned yet
NoCalls == cached_hex = <<>> /\ cached_color = <<>> /\ watched = [args |-> <<>>, first |-> <<>>]
NoSlots == attr = [o \in Owners |-> <<>>] /\ default = PyNone

(***************************************************************************)
(* The import of the module: lines 285-306, then the loop of lines 459-460. *)
(***************************************************************************)
InitImport ==
    /\ seeded = [basic |-> FALSE, names |-> 0]
    /\ self = <<>>
    /\ call = [op |-> "import"]
    /\ ret = Pending
    /\ NoCalls /\ NoSlots

\* Color._CACHE.update(white=Color('#ffffff'), ...)
UpdateBasic ==
    /\ ~seeded.basic
    /\ seeded' = [seeded EXCEPT !.basic = TRUE]
    /\ UNCHANGED <<self, call, ret, cacheVars, slotVars>>

\* one turn of the loop: Color._CACHE.setdefault(_name, Color(_code))
SetDefault ==
    /\ seeded.basic /\ seeded.names < Len(COLOR_NAMES)
    /\ seeded' = [seeded EXCEPT !.names = @ + 1]
    /\ UNCHANGED <<self, call, ret, cacheVars, slotVars>>

NextImport == UpdateBasic \/ SetDefault

SpecImport == InitImport /\ [][NextImport]_vars

\* the module is imported; a Color is about to be constructed
Init == /\ seeded = Imported
        /\ self = <<>>
        /\ call \in CtorCalls
        /\ ret = Pending
        /\ NoCalls /\ NoSlots

\* what the three random.randint(0, 255) calls may return, where they are made
RandDraws(args) ==
    IF Len(args) = 1 /\ args[1].t = "str" /\ args[1].s = RandomStr
    THEN RandVals \X RandVals \X RandVals
    ELSE {<<0, 0, 0>>}

\* Color(*args, **kwargs): object.__new__ then __init__ on the new object
Construct ==
    /\ ret = Pending
    /\ call.op = "Color"
    /\ \E rnd \in RandDraws(call.args) :
          LET r == ColorInit(_CACHE, call.args, call.kw, rnd) IN
          /\ ret' = r
          /\ self' = IF r.kind = "ok" THEN r.val ELSE <<>>
    /\ UNCHANGED <<seeded, call, cacheVars, slotVars>>

Next == Construct

Spec == Init /\ [][Next]_vars

(***************************************************************************)
(* Properties of the constructor.                                          *)
(***************************************************************************)
Done == call.op = "Color" /\ ret # Pending

\* the positional arguments section 4.2 does not accept
Unsupported(args) ==
    \/ Len(args) \in {0, 2}
    \/ Len(args) >= 5
    \/ /\ Len(args) = 1
       /\ \/ args[1].t \in {"float", "None"}
          \/ args[1].t \in {"tuple", "list"} /\ Len(args[1].e) \notin {3, 4}

\* C1: every call of Color with an unsupported arity/type combination raises
\* an error: it never returns a Color.
C1_UnsupportedRaises == (Done /\ Unsupported(call.args)) => ret.kind = "raise"

IsNameCall ==
    /\ Done /\ call.kw = NoKw /\ Len(call.args) = 1 /\ call.args[1].t = "str"
    /\ ~startswithHash(call.args[1].s) /\ call.args[1].s # RandomStr

\* s is name n up to the case of its letters
IsCaseVariant(s, n) == Len(s) = Len(n) /\ \A i \in 1..Len(s) : LowerChar(s[i]) = n[i]

\* C6: a name of the seed tables, in any case, constructs the Color the
\* registry holds for it (so all case variants are equal); a string whose
\* lower-cased form is not in the registry raises KeyError.
C6_RegistryLookup ==
    IsNameCall =>
        LET s == call.args[1].s IN
        /\ \A n \in SeedNames : IsCaseVariant(s, n) =>
              /\ ret.kind = "ok"
              /\ ret.val # <<>>
              /\ __eq__(ret.val, PyColor(_CACHE[n])) = Ok(TRUE)
        /\ (\A n \in DOMAIN _CACHE : ~IsCaseVariant(s, n)) => ret = Raise("KeyError")

C6_Witness ==
    /\ IsNameCall
    /\ call.args[1].s = <<"i","N","d","I","a","N","r","E","d">>
    /\ ret = Ok(<<205, 92, 92, 255>>)

IsHexCall ==
    /\ Done /\ Len(call.args) = 1 /\ call.args[1].t = "str"
    /\ startswithHash(call.args[1].s)
    /\ call.kw \in {NoKw, KwAlpha}

AllHex(s) == \A i \in 2..Len(s) : IsHexChar(s[i])
EveryDigitDoubled(s) == <<"#">> \o [i \in 1..(2 * (Len(s) - 1)) |-> s[1 + (i + 1) \div 2]]
ByteAt(s, k) == 16 * HexVal(s[2 * k]) + HexVal(s[2 * k + 1])
AlphaGiven(kw) == IF kw = NoKw THEN 255 ELSE kw[1][2].i

\* C7: '#' and n hex digits parse by length: n = 3 or 4 as the string with
\* every digit doubled, n = 6 as (RR, GG, BB, alpha argument), n = 8 as
\* (RR, GG, BB, AA); any other n raises ValueError.
C7_HexByLength ==
    IsHexCall =>
        LET s == call.args[1].s
            n == Len(s) - 1
        IN  /\ (n \in {3, 4} /\ AllHex(s)) =>
                  /\ ret.kind = "ok"
                  /\ ret = ColorInit(_CACHE, <<PyStr(EveryDigitDoubled(s))>>, call.kw, <<0, 0, 0>>)
            /\ (n = 6 /\ AllHex(s)) =>
                  ret = Ok(<<ByteAt(s, 1), ByteAt(s, 2), ByteAt(s, 3), AlphaGiven(call.kw)>>)
            /\ (n = 8 /\ AllHex(s)) =>
                  ret = Ok(<<ByteAt(s, 1), ByteAt(s, 2), ByteAt(s, 3), ByteAt(s, 4)>>)
            /\ n \notin {3, 4, 6, 8} => ret = Raise("ValueError")

C7_Witness ==
    /\ IsHexCall
    /\ call.args[1].s = <<"#","a","B","7","f">>
    /\ ret = Ok(<<170, 187, 119, 255>>)

\* C8: for r, g, b in [0,255], Color(Color(r,g,b,255).rgbu) == Color(r,g,b,255).
C8_PackedRoundTrip ==
    \A r \in ByteVals, g \in ByteVals, b \in ByteVals :
        LET c == ColorInit(_CACHE, <<PyInt(r), PyInt(g), PyInt(b), PyInt(255)>>, NoKw, <<0, 0, 0>>).val
        IN  (Done /\ call.kw = NoKw /\ call.args = <<PyInt(rgbu(c).val)>>) =>
                /\ ret.kind = "ok"
                /\ __eq__(ret.val, PyColor(c)) = Ok(TRUE)

C8_Witness ==
    /\ Done /\ call.kw = NoKw
    /\ call.args = <<PyInt(127 * 65536 + 128 * 256 + 255)>>
    /\ ret = Ok(<<127, 128, 255, 255>>)

(***************************************************************************)
(* Calls of the methods of a constructed Color.                            *)
(***************************************************************************)
EqElems == {PyInt(10), PyInt(255)}
EqReceivers == {<<>>, <<10, 10, 10, 255>>, <<10, 255, 10, 10>>, <<255, 255, 255, 255>>,
                <<10, 20, 30, 255>>, <<10, 20, 30, 128>>}
EqOthers ==
    {PyTuple(s) : s \in SeqsUpTo(EqElems, MaxSeqLen)}
    \cup {PyList(s) : s \in SeqsUpTo(EqElems, MaxSeqLen)}
    \cup {PyTuple(<<PyInt(10), PyInt(20), PyInt(30)>>),
          PyTuple(<<PyInt(10), PyInt(20), PyInt(30), PyInt(255)>>),
          PyTuple(<<PyInt(10), PyInt(20), PyInt(30), PyInt(128)>>),
          PyTuple(<<PyInt(10), PyInt(20), PyInt(31)>>),
          PyTuple(<<PyFloat(20), PyInt(20), PyInt(30)>>),
          PyTuple(<<PyFloat(21), PyInt(20), PyInt(30)>>),
          PyList(<<PyInt(10), PyNone, PyInt(30)>>),
          PyStr(<<"r","e","d">>), PyStr(<<"n","a","v","y">>), PyStr(<<"#","f","f">>),
          PyInt(10), PyFloat(20), PyNone}
    \cup {PyColor(c) : c \in EqReceivers}

CopyGiven == {PyNone, PyInt(0), PyInt(77)}
CopyKwds == {<<>>, << <<"hue", PyInt(1)>> >>}
CopyReceivers == {<<>>, <<10, 20, 30, 255>>, <<0, 0, 0, 0>>, <<255, 255, 255, 128>>}

GrayVals == {0, 1, 128, 255}
HsiaReceivers == {<<>>} \cup {<<r, g, b, 255>> : r \in GrayVals, g \in GrayVals, b \in GrayVals}

MaxIndex == 5       \* indices and slice ends tried: -(MaxIndex + 1)..MaxIndex
Indices == (0 - MaxIndex - 1)..MaxIndex
SliceEnds == {PyNone} \cup {PyInt(i) : i \in Indices}
SliceSteps == {PyNone, PyInt(-3), PyInt(-2), PyInt(-1), PyInt(0), PyInt(1), PyInt(2), PyInt(3)}
ItemKeys == {PyInt(i) : i \in Indices}
            \cup {PySlice(a, b, c) : a \in SliceEnds, b \in SliceEnds, c \in SliceSteps}
            \cup {PyFloat(2), PyStr(<<"r","e","d">>), PyNone}
ItemReceivers == {<<>>, <<10, 20, 30, 128>>, <<0, 255, 0, 255>>}

ValueCalls ==
    {[self |-> c, call |-> [op |-> "eq", other |-> o]] : c \in EqReceivers, o \in EqOthers}
    \cup {[self |-> c, call |-> [op |-> "hash"]] : c \in EqReceivers \cup HsiaReceivers}
    \cup {[self |-> c,
           call |-> [op |-> "copy", red |-> r, green |-> g, blue |-> b, alpha |-> a, kwds |-> k]] :
             c \in CopyReceivers, r \in CopyGiven, g \in CopyGiven, b \in CopyGiven,
             a \in CopyGiven, k \in CopyKwds}
    \cup {[self |-> c, call |-> [op |-> o]] : c \in HsiaReceivers, o \in {"hsia", "hsi"}}
    \cup {[self |-> c, call |-> [op |-> "getitem", key |-> k]] : c \in ItemReceivers, k \in ItemKeys}
    \cup {[self |-> c, call |-> [op |-> o]] : c \in ItemReceivers, o \in {"rgb", "rgba"}}

\* a Color has been constructed; one of its methods is about to be called
InitValue ==
    /\ seeded = Imported
    /\ \E vc \in ValueCalls : self = vc.self /\ call = vc.call
    /\ ret = Pending
    /\ NoCalls /\ NoSlots

\* self == other
Eq ==
    /\ ret = Pending /\ call.op = "eq"
    /\ ret' = __eq__(self, call.other)
    /\ UNCHANGED <<seeded, self, call, cacheVars, slotVars>>

\* hash(self)
Hash ==
    /\ ret = Pending /\ call.op = "hash"
    /\ ret' = __hash__(self)
    /\ UNCHANGED <<seeded, self, call, cacheVars, slotVars>>

\* self.copy(red=..., green=..., blue=..., alpha=..., **kwds)
Copy ==
    /\ ret = Pending /\ call.op = "copy"
    /\ ret' = copy(_CACHE, self, call.red, call.green, call.blue, call.alpha, call.kwds)
    /\ UNCHANGED <<seeded, self, call, cacheVars, slotVars>>

\* self.hsia
Hsia ==
    /\ ret = Pending /\ call.op = "hsia"
    /\ ret' = hsia(self)
    /\ UNCHANGED <<seeded, self, call, cacheVars, slotVars>>

\* self.hsi
Hsi ==
    /\ ret = Pending /\ call.op = "hsi"
    /\ ret' = hsi(self)
    /\ UNCHANGED <<seeded, self, call, cacheVars, slotVars>>

\* self[key]
GetItem ==
    /\ ret = Pending /\ call.op = "getitem"
    /\ ret' = __getitem__(self, call.key)
    /\ UNCHANGED <<seeded, self, call, cacheVars, slotVars>>

\* self.rgb
Rgb ==
    /\ ret = Pending /\ call.op = "rgb"
    /\ ret' = rgb(self)
    /\ UNCHANGED <<seeded, self, call, cacheVars, slotVars>>

\* self.rgba
Rgba ==
    /\ ret = Pending /\ call.op = "rgba"
    /\ ret' = rgba(self)
    /\ UNCHANGED <<seeded, self, call, cacheVars, slotVars>>

NextValue == Eq \/ Hash \/ Copy \/ Hsia \/ Hsi \/ GetItem \/ Rgb \/ Rgba

SpecValue == InitValue /\ [][NextValue]_vars

(***************************************************************************)
(* Properties of the methods.                                              *)
(***************************************************************************)
\* o has n elements: a tuple, a list, a str, or (n = 4) a Color
TupleLike(o, n) ==
    \/ o.t \in {"tuple", "list"} /\ Len(o.e) = n
    \/ o.t = "str" /\ Len(o.s) = n
    \/ o.t = "Color" /\ n = 4

\* the j-th element of o is the number x
Matches(x, o, j) ==
    \/ o.t \in {"tuple", "list"} /\ o.e[j].t = "int" /\ o.e[j].i = x
    \/ o.t \in {"tuple", "list"} /\ o.e[j].t = "float" /\ o.e[j].h = 2 * x
    \/ o.t = "Color" /\ o.c # <<>> /\ o.c[j] = x

\* C3: c == o is true exactly when o is 4-tuple-like and the four components
\* match, or o is 3-tuple-like, c.alpha = 255 and the first three match; for a
\* sequence of any other length it is False, not an error.
C3_ArityTolerantEq ==
    (call.op = "eq" /\ ret # Pending) =>
        LET o == call.other IN
        /\ (ret = Ok(TRUE)) <=>
              /\ self # <<>>
              /\ \/ TupleLike(o, 4) /\ \A j \in 1..4 : Matches(self[j], o, j)
                 \/ TupleLike(o, 3) /\ self[4] = 255 /\ \A j \in 1..3 : Matches(self[j], o, j)
        /\ (o.t \in {"tuple", "list", "str"} /\ ~TupleLike(o, 3) /\ ~TupleLike(o, 4)) =>
              ret = Ok(FALSE)

C3_Witness ==
    /\ call.op = "eq" /\ self = <<10, 20, 30, 255>>
    /\ call.other = PyTuple(<<PyInt(10), PyInt(20), PyInt(30)>>)
    /\ ret = Ok(TRUE)

\* C4: hash(c) succeeds and is the hash of the packed word c.rgbau.
C4_HashOfPacked ==
    (call.op = "hash" /\ ret # Pending /\ self # <<>>) =>
        /\ ret.kind = "ok"
        /\ ret = rgbau(self)

\* the component copy() is to give: the override when given, else the receiver's
Overridden(given, old) == IF given = PyNone THEN old ELSE given.i

\* C9: c.copy(...) returns a Color with the overridden components as given
\* (0 included) and the others as in c, equal to c when nothing is overridden;
\* c keeps its components; any other keyword raises NotImplementedError.
C9_CopyWith ==
    [][(call.op = "copy" /\ ret = Pending /\ ret' # Pending /\ self # <<>>) =>
          /\ self' = self
          /\ IF call.kwds # <<>> THEN ret' = Raise("NotImplementedError")
             ELSE /\ ret' = Ok(<<Overridden(call.red, self[1]), Overridden(call.green, self[2]),
                                 Overridden(call.blue, self[3]), Overridden(call.alpha, self[4])>>)
                  /\ (call.red = PyNone /\ call.green = PyNone /\ call.blue = PyNone
                         /\ call.alpha = PyNone) => __eq__(ret'.val, PyColor(self)) = Ok(TRUE)
      ]_vars

C9_Witness ==
    /\ call.op = "copy" /\ self = <<10, 20, 30, 255>>
    /\ call.red = PyInt(0) /\ call.green = PyNone /\ call.blue = PyInt(77) /\ call.alpha = PyInt(0)
    /\ ret = Ok(<<0, 20, 77, 0>>)

\* C10: reading hsi or hsia of an achromatic Color (red = green = blue) raises
\* no error and returns a tuple.  (Stated for the grays other than black, where
\* the zero is the hue denominator; black divides by I = 0 before that.)
C10_AchromaticHue ==
    (call.op \in {"hsia", "hsi"} /\ ret # Pending /\ self # <<>>
        /\ self[1] = self[2] /\ self[2] = self[3] /\ self[1] # 0) => ret.kind = "ok"

\* C15: c[i] is tuple(c)[i] for an integer i in -4..3 and raises IndexError for
\* any other integer; c[s] is tuple(c)[s] for a slice s; c.rgb is
\* (red, green, blue), which is c.rgba[:3].
C15_IndexedRead ==
    /\ (call.op = "getitem" /\ ret # Pending /\ self # <<>>) =>
          /\ call.key.t \in {"int", "slice"} => ret = TupleGetItem(tuple(self).val.e, call.key)
          /\ call.key.t = "int" =>
                IF call.key.i \in -4..3 THEN ret.kind = "ok" ELSE ret = Raise("IndexError")
    /\ (call.op = "rgb" /\ ret # Pending /\ self # <<>>) =>
          /\ ret = Ok(PyTuple(<<PyInt(self[1]), PyInt(self[2]), PyInt(self[3])>>))
          /\ ret = TupleGetItem(rgba(self).val.e, PySlice(PyNone, PyInt(3), PyNone))
    /\ (call.op = "rgba" /\ ret # Pending /\ self # <<>>) =>
          ret = Ok(PyTuple(<<PyInt(self[1]), PyInt(self[2]), PyInt(self[3]), PyInt(self[4])>>))

C15_Witness ==
    /\ call.op = "getitem" /\ self = <<10, 20, 30, 128>>
    /\ call.key = PySlice(PyInt(-1), PyNone, PyInt(-2))
    /\ ret = Ok(PyTuple(<<PyInt(128), PyInt(20)>>))

(***************************************************************************)
(* Calls of the cached constructor.                                        *)
(***************************************************************************)
CacheArgs ==
    {<<PyStr(RandomStr)>>, <<PyStr(<<"r","e","d">>)>>, <<PyStr(<<"R","E","D">>)>>,
     <<PyStr(<<"n","o","p","e">>)>>, <<PyStr(<<"#","f","f","f">>)>>,
     <<PyInt(1), PyInt(2), PyInt(3)>>, <<PyInt(1), PyInt(2)>>,
     <<PyTuple(<<PyInt(1), PyInt(2), PyInt(3)>>)>>, <<PyList(<<PyInt(1), PyInt(2), PyInt(3)>>)>>,
     <<PyColor(<<1, 2, 3, 255>>)>>, <<>>}

\* the draws tried for 'random' where calls follow one another
FewDraws(args) == IF args = <<PyStr(RandomStr)>> THEN {<<0, 0, 0>>, <<255, 255, 255>>}
                    ELSE {<<0, 0, 0>>}

\* the module is imported, both tables are empty
InitCache ==
    /\ seeded = Imported
    /\ self = <<>>
    /\ call = [op |-> "none"]
    /\ ret = Pending
    /\ cached_hex = <<>> /\ cached_color = <<>>
    /\ \E a \in CacheArgs : watched = [args |-> a, first |-> <<>>]
    /\ NoSlots

\* color(*args)
ColorCall ==
    \E args \in CacheArgs : \E rnd \in FewDraws(args) :
        LET r == color(_CACHE, cached_hex, cached_color, args, rnd) IN
        /\ call' = [op |-> "color", args |-> args]
        /\ ret' = r.ret
        /\ cached_hex' = r.hex
        /\ cached_color' = r.color
        /\ watched' = IF args = watched.args /\ watched.first = <<>> /\ r.ret.kind = "ok"
                      THEN [watched EXCEPT !.first = <<r.ret.val>>]
                      ELSE watched
        /\ UNCHANGED <<seeded, self, slotVars>>

NextCache == ColorCall

SpecCache == InitCache /\ [][NextCache]_vars

\* C2: two calls of color with the same accepted arguments return equal
\* Colors, whatever calls came between them, evicting ones included.
C2_CacheTransparency ==
    (call.op = "color" /\ ret.kind = "ok" /\ ~Unsupported(call.args)
        /\ call.args = watched.args /\ watched.first # <<>>) =>
            __eq__(ret.val, PyColor(watched.first[1])) = Ok(TRUE)

\* what Color(*args) gives for the arguments of a color(...) call
Direct(args) == ColorInit(_CACHE, args, <<>>, <<0, 0, 0>>)

\* the arguments involve no random draw
Deterministic(args) == args # <<PyStr(RandomStr)>>

\* C11: for every deterministic positional argument list that Color(*args)
\* accepts and turns into a Color, color(*args) returns a Color too, and it is
\* equal to Color(*args).
C11_ColorAcceptsAsColor ==
    (call.op = "color" /\ Deterministic(call.args) /\ ~Unsupported(call.args)
        /\ Direct(call.args).kind = "ok") =>
            /\ ret.kind = "ok"
            /\ __eq__(ret.val, PyColor(Direct(call.args).val)) = Ok(TRUE)

\* the keys memoized in a table
KeysOf(table) == {table[i][1] : i \in 1..Len(table)}

\* C12: the construction cache never holds more than the capacity (512; here
\* maxsize) memoized entries in total, and an insertion into a full table
\* evicts the least recently used entry, the one at the head of the table.
C12_CapacityBound ==
    [][/\ Len(cached_hex') + Len(cached_color') <= maxsize
       /\ \A k \in KeysOf(cached_hex) \ KeysOf(cached_hex') : k = Head(cached_hex)[1]
       /\ \A k \in KeysOf(cached_color) \ KeysOf(cached_color') : k = Head(cached_color)[1]
      ]_vars

(***************************************************************************)
(* A class with one colorproperty, and two instances of it.                *)
(***************************************************************************)
DefaultsGiven == {PyNone, PyStr(<<"b","l","a","c","k">>), PyStr(<<"n","o","p","e">>),
                  PyTuple(<<PyInt(1), PyInt(2), PyInt(3)>>)}
SlotValues ==
    {PyNone, PyColor(<<1, 2, 3, 255>>), PyColor(<<9, 9, 9, 9>>),
     PyStr(<<"r","e","d">>), PyStr(<<"#","f","f","f">>), PyStr(<<"n","o","p","e">>),
     PyStr(<<"#","f","f">>), PyStr(RandomStr), PyInt(255),
     PyTuple(<<PyInt(1), PyInt(2), PyInt(3)>>), PyFloat(7)}

\* the class body is about to evaluate colorproperty(name, default)
InitSlot ==
    /\ seeded = Imported
    /\ self = <<>>
    /\ \E d \in DefaultsGiven : call = [op |-> "colorproperty", given |-> d]
    /\ ret = Pending
    /\ NoCalls /\ NoSlots

\* colorproperty(name, default)
Define ==
    /\ call.op = "colorproperty" /\ ret = Pending
    /\ LET d == colorproperty(_CACHE, call.given) IN
       /\ ret' = IF d.kind = "raise" THEN d ELSE Ok(PyNone)
       /\ default' = IF d.kind = "raise" THEN default ELSE d.val
    /\ UNCHANGED <<seeded, self, call, attr, cacheVars>>

\* the class exists: colorproperty(...) has returned
Defined == ~(call.op = "colorproperty" /\ ret.kind \in {"pending", "raise"})

\* obj.name = value
Set ==
    /\ Defined
    /\ \E o \in Owners, value \in SlotValues : \E rnd \in FewDraws(<<value>>) :
          LET r == fset(_CACHE, attr, default, o, value, rnd) IN
          /\ call' = [op |-> "set", owner |-> o, value |-> value]
          /\ ret' = r.ret
          /\ attr' = r.attr
    /\ UNCHANGED <<seeded, self, default, cacheVars>>

\* obj.name
Get ==
    /\ Defined
    /\ \E o \in Owners :
          /\ call' = [op |-> "get", owner |-> o]
          /\ ret' = Ok(fget(attr, default, o))
    /\ UNCHANGED <<seeded, self, attr, default, cacheVars>>

\* del obj.name
Del ==
    /\ Defined
    /\ \E o \in Owners :
          LET r == fdel(attr, o) IN
          /\ call' = [op |-> "del", owner |-> o]
          /\ ret' = r.ret
          /\ attr' = r.attr
    /\ UNCHANGED <<seeded, self, default, cacheVars>>

NextSlot == Define \/ Set \/ Get \/ Del

SpecSlot == InitSlot /\ [][NextSlot]_vars

\* what an assignment of value is to leave in the slot
Assigned(value) ==
    CASE value = PyNone -> {default}
      [] value.t = "Color" -> {value}
      [] OTHER -> {PyColor(ColorInit(_CACHE, <<value>>, <<>>, rnd).val) : rnd \in FewDraws(<<value>>)}

\* C5: a read of the slot returns what the last successful assignment left:
\* the configured default for None, the Color itself for a Color, Color(v) for
\* any other v; a slot never assigned reads as the configured default.
C5_SlotAssignment ==
    [][/\ (call.op = "colorproperty" /\ ret = Pending /\ ret'.kind = "ok") =>
            \A o \in Owners :
                fget(attr', default', o) =
                    IF call.given = PyNone THEN PyNone
                    ELSE PyColor(ColorInit(_CACHE, <<call.given>>, <<>>, <<0, 0, 0>>).val)
       /\ (Defined /\ call'.op = "set" /\ ret'.kind = "ok") =>
            fget(attr', default', call'.owner) \in Assigned(call'.value)
       /\ (Defined /\ call'.op = "set" /\ ret'.kind = "raise") =>
            fget(attr', default', call'.owner) = fget(attr, default, call'.owner)
       /\ (Defined /\ call'.op = "get") =>
            /\ ret' = Ok(fget(attr, default, call'.owner))
            /\ fget(attr', default', call'.owner) = fget(attr, default, call'.owner)
       /\ Defined =>
            /\ default' = default
            /\ \A p \in Owners \ {call'.owner} : fget(attr', default', p) = fget(attr, default, p)
      ]_vars

C5_Witness ==
    /\ call = [op |-> "get", owner |-> 1]
    /\ default = PyColor(<<0, 0, 0, 255>>)
    /\ attr[1] = <<PyColor(<<255, 0, 0, 255>>)>>
    /\ attr[2] = <<PyColor(<<0, 0, 0, 255>>)>>
    /\ ret = Ok(PyColor(<<255, 0, 0, 255>>))

\* a '#' string that is no hex code of 3, 4, 6 or 8 digits
MalformedHex(s) == startswithHash(s) /\ (Len(s) - 1 \notin {3, 4, 6, 8} \/ ~AllHex(s))

\* a string that names no Color of the registry
UnknownName(s) == ~startswithHash(s) /\ s # RandomStr /\ lower(s) \notin SeedNames

\* a value assigned to a slot that the format dispatcher cannot parse
Unparseable(value) ==
    /\ value.t \notin {"None", "Color"}
    /\ \/ Unsupported(<<value>>)
       \/ value.t = "str" /\ (MalformedHex(value.s) \/ UnknownName(value.s))

\* the slot of o reads as the configured default or as a Color with its four
\* components set
DefaultOrColor(attrs, dflt, o) ==
    \/ fget(attrs, dflt, o) = dflt
    \/ fget(attrs, dflt, o).t = "Color" /\ fget(attrs, dflt, o).c # <<>>

\* C14: the assignment of an unparseable value (unknown name, malformed hex,
\* unsupported type or arity) raises an error and leaves the slot as it was;
\* so after any assignment every slot holds the configured default or a fully
\* constructed Color.
C14_FailedSetAtomic ==
    [][(Defined /\ call'.op = "set") =>
          /\ Unparseable(call'.value) => (ret'.kind = "raise" /\ attr' = attr)
          /\ ret'.kind = "raise" => attr' = attr
          /\ \A o \in Owners : DefaultOrColor(attr', default', o)
      ]_vars

\* C16: del on a slot holding an assigned value removes it, and the slot then
\* reads as the configured default; del on a slot never assigned, or already
\* deleted, raises AttributeError and the slot still reads as the default;
\* neither touches the slot of another object nor the configured default.
C16_SlotDeletion ==
    [][(Defined /\ call'.op = "del") =>
          LET o == call'.owner IN
          /\ IF attr[o] # <<>> THEN ret'.kind = "ok" ELSE ret' = Raise("AttributeError")
          /\ attr'[o] = <<>>
          /\ fget(attr', default', o) = default
          /\ default' = default
          /\ \A p \in Owners \ {o} : attr'[p] = attr[p]
      ]_vars

\* a slot assigned and then deleted reads as the default, the other is as it was
C16_Witness ==
    /\ call = [op |-> "del", owner |-> 1] /\ ret.kind = "ok"
    /\ default = PyColor(<<0, 0, 0, 255>>)
    /\ attr[1] = <<>>
    /\ attr[2] = <<PyColor(<<255, 0, 0, 255>>)>>

(***************************************************************************)
(* The registry over the life of the process: the import, then uses of     *)
(* the names by the constructor, copy, color() and a colorproperty.        *)
(***************************************************************************)
Transparent == <<"t","r","a","n","s","p","a","r","e","n","t">>
Null == <<"n","u","l","l">>

RegistryCtorCalls ==
    {[op |-> "Color", args |-> <<PyStr(n)>>, kw |-> NoKw] :
        n \in {<<"r","e","d">>, upper(Transparent), Null, <<"n","o","p","e">>}}
RegistryArgs == {<<PyStr(Null)>>, <<PyStr(<<"G","r","e","e","n">>)>>}
RegistrySlotValues == {PyStr(Transparent), PyStr(<<"n","o","p","e">>), PyNone}

\* the module is about to be imported; a Color(name) call follows the import
InitRegistry ==
    /\ seeded = [basic |-> FALSE, names |-> 0]
    /\ self = <<>>
    /\ call \in RegistryCtorCalls
    /\ ret = Pending
    /\ NoCalls /\ NoSlots

\* self.copy(alpha=...) on the Color built from a name
CopyBuilt ==
    /\ self # <<>>
    /\ \E a \in CopyGiven :
          /\ call' = [op |-> "copy", red |-> PyNone, green |-> PyNone, blue |-> PyNone,
                      alpha |-> a, kwds |-> <<>>]
          /\ ret' = copy(_CACHE, self, PyNone, PyNone, PyNone, a, <<>>)
    /\ UNCHANGED <<seeded, self, cacheVars, slotVars>>

\* color(name)
ColorOfName ==
    \E args \in RegistryArgs :
        LET r == color(_CACHE, cached_hex, cached_color, args, <<0, 0, 0>>) IN
        /\ call' = [op |-> "color", args |-> args]
        /\ ret' = r.ret
        /\ cached_hex' = r.hex
        /\ cached_color' = r.color
        /\ UNCHANGED <<seeded, self, watched, slotVars>>

\* obj.name = value, for a name of the registry, an unknown name, or None
SetToName ==
    \E o \in Owners, value \in RegistrySlotValues :
        LET r == fset(_CACHE, attr, default, o, value, <<0, 0, 0>>) IN
        /\ call' = [op |-> "set", owner |-> o, value |-> value]
        /\ ret' = r.ret
        /\ attr' = r.attr
        /\ UNCHANGED <<seeded, self, default, cacheVars>>

\* the statements after the import run once the import has run
NextRegistry ==
    \/ UpdateBasic
    \/ SetDefault
    \/ seeded = Imported /\ Construct
    \/ seeded = Imported /\ CopyBuilt
    \/ seeded = Imported /\ ColorOfName
    \/ seeded = Imported /\ SetToName

SpecRegistry == InitRegistry /\ [][NextRegistry]_vars

\* C13: the registry is seeded once and read-only afterwards: nothing is in it
\* before the 18 basic entries, an entry once inserted keeps its value (a
\* COLOR_NAMES entry is inserted only where the name is absent), so every basic
\* name keeps its curated value, 'transparent' = (255,255,255,0) and
\* 'null' = (0,0,0,0) included; and once seeded, no construction, name lookup,
\* color() call, copy or slot assignment changes the registry.
C13_RegistryReadOnly ==
    [][\A before \in {CacheAt(seeded)} : \A after \in {CacheAt(seeded')} :
           /\ ~seeded.basic => DOMAIN before = {}
           /\ \A n \in DOMAIN before : n \in DOMAIN after /\ after[n] = before[n]
           /\ seeded'.basic =>
                 /\ \A i \in 1..Len(BASIC_COLORS) :
                        /\ BASIC_COLORS[i][1] \in DOMAIN after
                        /\ after[BASIC_COLORS[i][1]] =
                              ColorInit(<<>>, <<PyStr(BASIC_COLORS[i][2])>>, <<>>, <<0, 0, 0>>).val
                 /\ after[Transparent] = <<255, 255, 255, 0>>
                 /\ after[Null] = <<0, 0, 0, 0>>
           /\ seeded = Imported => after = before
      ]_vars

C13_Witness ==
    /\ seeded = Imported
    /\ self = <<255, 255, 255, 0>>
    /\ call.op = "copy" /\ ret = Ok(<<255, 255, 255, 77>>)
    /\ attr[1] = <<PyColor(<<255, 255, 255, 0>>)>>
    /\ Len(cached_hex) = 2
    /\ _CACHE[Transparent] = <<255, 255, 255, 0>>
====
